---- MODULE Spec2Model ----
(***************************************************************************)
(* Model of the transcript-to-GPA pipeline of app.py / ocr_helper.py:      *)
(* perform_ocr, parse_with_deepseek, calculate_gpa and the button handler  *)
(* that chains them.                                                       *)
(*                                                                         *)
(* Conventions.                                                            *)
(*  - A Python value (what json.loads can produce, and what a pandas cell  *)
(*    can hold) is a record [t, n, d, s]: t is the kind, n/d the rational  *)
(*    value of a finite number, s the text of a string.                    *)
(*  - A text is a sequence of tokens; Python's `x in text` is token        *)
(*    membership.                                                          *)
(*  - A dict is a function whose DOMAIN is the set of keys it carries.     *)
(***************************************************************************)
EXTENDS Integers, Sequences, FiniteSets, TLC

VARIABLES
    data_list,      \* calculate_gpa: the argument
    final_gpa,      \* calculate_gpa: first component of the result
    df_result,      \* calculate_gpa: second component (rows of the DataFrame)
    gpa_pc,         \* "idle" | "call" | "done"
    impl,           \* which file's functions run: "app" | "ocr_helper"
    tesseract_cmd,  \* pytesseract.pytesseract.tesseract_cmd, the process-wide engine path
    env,            \* what is installed: [onPath, winExists]
    ocr_arg,        \* perform_ocr: the tesseract_cmd argument of the last call
    ocr_out,        \* perform_ocr: the text the last call returned
    ocr_failure,    \* perform_ocr: why the engine failed in the last call, or "none"
    ocr_calls,      \* perform_ocr: calls made so far
    ocr_text,       \* parse_with_deepseek: the text argument
    api_key,        \* parse_with_deepseek: the credential argument
    reply,          \* parse_with_deepseek: what the service answered
    parsed_data,    \* parse_with_deepseek: the value returned
    client_built,   \* parse_with_deepseek: OpenAI(...) was constructed
    request_sent,   \* parse_with_deepseek: chat.completions.create was called
    parse_raised,   \* parse_with_deepseek: an exception left the function
    parse_pc,       \* "idle" | "call" | "done"
    pipe_pc,        \* button handler: "idle" | "loop" | "show" | "stopped" | "done"
    images_left,    \* button handler: uploaded files not yet processed
    all_extracted_data, \* button handler: the pooled records
    image_records,  \* button handler: records the last image contributed
    image_calls,    \* button handler: requests sent to the service for the last image
    display         \* button handler: what the page shows

gpa_vars == <<data_list, final_gpa, df_result, gpa_pc>>
ocr_vars == <<tesseract_cmd, env, ocr_arg, ocr_out, ocr_failure, ocr_calls>>
parse_vars == <<ocr_text, api_key, reply, parsed_data, client_built, request_sent,
                parse_raised, parse_pc>>
pipe_vars == <<pipe_pc, images_left, all_extracted_data, image_records, image_calls,
               display>>

vars == <<gpa_vars, impl, ocr_vars, parse_vars, pipe_vars>>

----------------------------------------------------------------------------
(* Python values *)

Num(n, d) == [t |-> "num", n |-> n, d |-> d, s |-> <<>>]
IntV(n)    == Num(n, 1)
Str(s)    == [t |-> "str", n |-> 0, d |-> 1, s |-> s]
PosInf    == [t |-> "inf", n |-> 0, d |-> 1, s |-> <<>>]
NegInf    == [t |-> "ninf", n |-> 0, d |-> 1, s |-> <<>>]
NaN       == [t |-> "nan", n |-> 0, d |-> 1, s |-> <<>>]
None      == [t |-> "null", n |-> 0, d |-> 1, s |-> <<>>]

IsInfinite(v) == v.t \in {"inf", "ninf"}
IsNumber(v) == v.t \in {"num", "inf", "ninf"}

\* sign of a float: -1, 0, 1 (denominators are kept positive)
Sign(v) ==
    CASE v.t = "inf" -> 1
      [] v.t = "ninf" -> -1
      [] v.t = "num" -> (IF v.n > 0 THEN 1 ELSE IF v.n < 0 THEN -1 ELSE 0)
      [] OTHER -> 0

Signed(sg) == IF sg > 0 THEN PosInf ELSE NegInf

\* float64 arithmetic, exact on finite values, IEEE 754 on the others
FAdd(a, b) ==
    CASE a.t = "nan" \/ b.t = "nan" -> NaN
      [] IsInfinite(a) /\ IsInfinite(b) -> (IF a.t = b.t THEN a ELSE NaN)
      [] IsInfinite(a) -> a
      [] IsInfinite(b) -> b
      [] OTHER -> Num(a.n * b.d + b.n * a.d, a.d * b.d)

FSub(a, b) ==
    FAdd(a, CASE b.t = "inf" -> NegInf
              [] b.t = "ninf" -> PosInf
              [] b.t = "num" -> Num(0 - b.n, b.d)
              [] OTHER -> NaN)

FMul(a, b) ==
    CASE a.t = "nan" \/ b.t = "nan" -> NaN
      [] IsInfinite(a) \/ IsInfinite(b) ->
            (IF Sign(a) * Sign(b) = 0 THEN NaN ELSE Signed(Sign(a) * Sign(b)))
      [] OTHER -> Num(a.n * b.n, a.d * b.d)

\* b is never a finite zero where the program divides (line 200 guards it)
FDiv(a, b) ==
    CASE a.t = "nan" \/ b.t = "nan" -> NaN
      [] IsInfinite(a) /\ IsInfinite(b) -> NaN
      [] IsInfinite(a) -> (IF Sign(b) < 0 THEN Signed(0 - Sign(a)) ELSE a)
      [] IsInfinite(b) -> IntV(0)
      [] b.n = 0 -> (IF a.n = 0 THEN NaN ELSE Signed(Sign(a)))
      [] OTHER -> (IF b.n > 0 THEN Num(a.n * b.d, a.d * b.n)
                              ELSE Num(0 - a.n * b.d, a.d * (0 - b.n)))

\* Python's == on floats
FEq(a, b) ==
    CASE a.t = "nan" \/ b.t = "nan" -> FALSE
      [] IsInfinite(a) \/ IsInfinite(b) -> a.t = b.t
      [] OTHER -> a.n * b.d = b.n * a.d

----------------------------------------------------------------------------
(* calculate_gpa *)

\* the strings pandas parses as numbers, with their values
NumericStrings == {<<"85">>}
ParseNumericString(s) == IF s = <<"85">> THEN IntV(85) ELSE NaN

\* pd.to_numeric(..., errors='coerce') on one cell
to_numeric(v) ==
    CASE v.t \in {"num", "inf", "ninf"} -> v
      [] v.t = "str" -> ParseNumericString(v.s)
      [] OTHER -> NaN

\* pd.DataFrame(data_list): the columns are the union of the keys, a missing
\* cell is NaN
Columns(rows) == UNION {DOMAIN rows[i] : i \in 1..Len(rows)}

DataFrame(rows) ==
    [i \in 1..Len(rows) |->
        [c \in Columns(rows) |-> IF c \in DOMAIN rows[i] THEN rows[i][c] ELSE NaN]]

\* df[col] = f(df[col])
MapColumn(df, col, F(_)) ==
    [i \in 1..Len(df) |-> [c \in DOMAIN df[i] |-> IF c = col THEN F(df[i][c]) ELSE df[i][c]]]

IsNA(v) == v.t \in {"nan", "null"}

RECURSIVE SelectRows(_, _)
SelectRows(df, keep) ==
    IF df = <<>> THEN <<>>
    ELSE LET rest == SelectRows(Tail(df), [i \in 1..(Len(df) - 1) |-> keep[i + 1]])
         IN IF keep[1] THEN <<Head(df)>> \o rest ELSE rest

\* df.dropna(subset=['score', 'credit'])
dropna(df) ==
    SelectRows(df, [i \in 1..Len(df) |-> ~IsNA(df[i]["score"]) /\ ~IsNA(df[i]["credit"])])

\* df.drop_duplicates(subset=['subject'], keep='first'); missing subjects are
\* equal to each other
SameSubject(a, b) == (IsNA(a) /\ IsNA(b)) \/ a = b

drop_duplicates(df) ==
    SelectRows(df, [i \in 1..Len(df) |->
        ~\E j \in 1..(i - 1) : SameSubject(df[j]["subject"], df[i]["subject"])])

\* a grade point clamped at 0
gpa_point_clamped(x) ==
    IF x.t = "num" /\ x.n < 50 * x.d THEN IntV(0) ELSE FDiv(FSub(x, IntV(50)), IntV(10))

\* lambda x: (x - 50) / 10
gpa_point(x) == FDiv(FSub(x, IntV(50)), IntV(10))

weighted_point(row) == FMul(gpa_point(row["score"]), row["credit"])

\* Series.sum(): NaN cells are skipped
RECURSIVE SeriesSum(_)
SeriesSum(xs) ==
    IF xs = <<>> THEN IntV(0)
    ELSE IF Head(xs).t = "nan" THEN SeriesSum(Tail(xs))
    ELSE FAdd(Head(xs), SeriesSum(Tail(xs)))

WithPoints(df) ==
    [i \in 1..Len(df) |->
        [c \in DOMAIN df[i] \cup {"gpa_point", "weighted_point"} |->
            CASE c = "gpa_point" -> gpa_point(df[i]["score"])
              [] c = "weighted_point" -> weighted_point(df[i])
              [] OTHER -> df[i][c]]]

Zero == IntV(0)

GpaOf(df) ==
    LET total_weighted_point == SeriesSum([i \in 1..Len(df) |-> df[i]["weighted_point"]])
        total_credit == SeriesSum([i \in 1..Len(df) |-> df[i]["credit"]])
    IN IF FEq(total_credit, Zero) THEN Zero ELSE FDiv(total_weighted_point, total_credit)

Cleaned(df) ==
    LET dropped == dropna(df)
    IN IF "subject" \in Columns(df) THEN drop_duplicates(dropped) ELSE dropped

\* the whole function: [gpa, df]
calculate_gpa(list) ==
    IF list = <<>> THEN [gpa |-> Zero, df |-> <<>>]
    ELSE LET df0 == DataFrame(list)
         IN IF "score" \notin Columns(df0) THEN [gpa |-> Zero, df |-> df0]
            ELSE LET df1 == MapColumn(df0, "score", to_numeric)
                 IN IF "credit" \notin Columns(df0) THEN [gpa |-> Zero, df |-> df1]
                    ELSE LET df2 == Cleaned(MapColumn(df1, "credit", to_numeric))
                         IN IF df2 = <<>> THEN [gpa |-> Zero, df |-> df2]
                            ELSE LET df3 == WithPoints(df2)
                                 IN [gpa |-> GpaOf(df3), df |-> df3]

----------------------------------------------------------------------------
(* texts *)

\* the code-fence marker (three backquotes)
FENCE == "fence"
NL == "newline"
Q == "dquote"

Whitespace == {NL, " "}

\* Python's `word in text`
Contains(text, word) == \E i \in 1..Len(text) : text[i] = word

StartsWith(text, prefix) ==
    Len(text) >= Len(prefix) /\ SubSeq(text, 1, Len(prefix)) = prefix

EndsWith(text, suffix) ==
    Len(text) >= Len(suffix)
        /\ SubSeq(text, Len(text) - Len(suffix) + 1, Len(text)) = suffix

Drop(text, n) == SubSeq(text, n + 1, Len(text))

RECURSIVE lstrip(_)
lstrip(text) ==
    IF text # <<>> /\ Head(text) \in Whitespace THEN lstrip(Tail(text)) ELSE text

RECURSIVE rstrip(_)
rstrip(text) ==
    IF text # <<>> /\ text[Len(text)] \in Whitespace
    THEN rstrip(SubSeq(text, 1, Len(text) - 1)) ELSE text

\* str.strip()
strip(text) == rstrip(lstrip(text))

\* str.replace(old, ""): every non-overlapping occurrence, left to right
RECURSIVE replace_with_empty(_, _)
replace_with_empty(text, old) ==
    IF text = <<>> THEN <<>>
    ELSE IF StartsWith(text, old) THEN replace_with_empty(Drop(text, Len(old)), old)
    ELSE <<Head(text)>> \o replace_with_empty(Tail(text), old)

----------------------------------------------------------------------------
(* json.loads, on the token level *)

\* the number literals of the model and the floats they denote
NumberLiterals == {"70", "1.0", "85", "2", "0", "Infinity", "NaN"}

ParseNumberLiteral(tok) ==
    CASE tok = "70" -> IntV(70)
      [] tok = "1.0" -> IntV(1)
      [] tok = "85" -> IntV(85)
      [] tok = "2" -> IntV(2)
      [] tok = "0" -> IntV(0)
      [] tok = "Infinity" -> PosInf
      [] OTHER -> NaN

Failed == [ok |-> FALSE, val |-> None, pos |-> 0]
Parsed(v, p) == [ok |-> TRUE, val |-> v, pos |-> p]

RECURSIVE SkipWs(_, _)
SkipWs(t, i) == IF i <= Len(t) /\ t[i] \in Whitespace THEN SkipWs(t, i + 1) ELSE i

At(t, i, tok) == i <= Len(t) /\ t[i] = tok

\* the position of the closing quote of the string opened before i, 0 if none;
\* a raw line break inside a string is an error
RECURSIVE ClosingQuote(_, _)
ClosingQuote(t, i) ==
    IF i > Len(t) \/ t[i] = NL THEN 0
    ELSE IF t[i] = Q THEN i ELSE ClosingQuote(t, i + 1)

ParseString(t, i) ==
    IF ~At(t, i, Q) THEN Failed
    ELSE LET j == ClosingQuote(t, i + 1)
         IN IF j = 0 THEN Failed ELSE Parsed(Str(SubSeq(t, i + 1, j - 1)), j + 1)

\* a string, a number or null
ParseScalar(t, i) ==
    IF i > Len(t) THEN Failed
    ELSE IF t[i] = Q THEN ParseString(t, i)
    ELSE IF t[i] \in NumberLiterals THEN Parsed(ParseNumberLiteral(t[i]), i + 1)
    ELSE IF t[i] = "null" THEN Parsed(None, i + 1)
    ELSE Failed

KeyName(s) == IF Len(s) = 1 THEN s[1] ELSE "other-key"

\* the members of an object after "{" or ","; acc is the dict so far
RECURSIVE ParseMembers(_, _, _)
ParseMembers(t, i, acc) ==
    LET key == ParseString(t, SkipWs(t, i))
        colon == SkipWs(t, key.pos)
        value == ParseScalar(t, SkipWs(t, colon + 1))
        after == SkipWs(t, value.pos)
        dict == (KeyName(key.val.s) :> value.val) @@ acc
    IN IF ~key.ok \/ ~At(t, colon, ":") THEN Failed
       ELSE IF ~value.ok THEN Failed
       ELSE IF At(t, after, "}") THEN Parsed(dict, after + 1)
       ELSE IF At(t, after, ",") THEN ParseMembers(t, after + 1, dict)
       ELSE Failed

ParseObject(t, i) ==
    IF ~At(t, i, "{") THEN Failed
    ELSE IF At(t, SkipWs(t, i + 1), "}") THEN Parsed(<<>>, SkipWs(t, i + 1) + 1)
    ELSE ParseMembers(t, i + 1, <<>>)

ParseElement(t, i) == IF At(t, i, "{") THEN ParseObject(t, i) ELSE ParseScalar(t, i)

\* the elements of an array after "[" or ","; acc is the list so far
RECURSIVE ParseElements(_, _, _)
ParseElements(t, i, acc) ==
    LET element == ParseElement(t, SkipWs(t, i))
        after == SkipWs(t, element.pos)
    IN IF ~element.ok THEN Failed
       ELSE IF At(t, after, "]") THEN Parsed(Append(acc, element.val), after + 1)
       ELSE IF At(t, after, ",") THEN ParseElements(t, after + 1, Append(acc, element.val))
       ELSE Failed

ParseArray(t, i) ==
    IF At(t, SkipWs(t, i + 1), "]") THEN Parsed(<<>>, SkipWs(t, i + 1) + 1)
    ELSE ParseElements(t, i + 1, <<>>)

\* json.loads(content): [k |-> "list", items] for an array, [k |-> "other"] for
\* any other document, [k |-> "error"] when it raises
json_loads(content) ==
    LET start == SkipWs(content, 1)
        doc == IF At(content, start, "[") THEN ParseArray(content, start)
               ELSE ParseElement(content, start)
    IN IF ~doc.ok \/ SkipWs(content, doc.pos) <= Len(content)
       THEN [k |-> "error", items |-> <<>>]
       ELSE IF At(content, start, "[") THEN [k |-> "list", items |-> doc.val]
       ELSE [k |-> "other", items |-> <<>>]

----------------------------------------------------------------------------
(* perform_ocr *)

Impls == {"app", "ocr_helper"}

Tesseract == <<"tesseract">>
win_path == <<"C:/Program Files/Tesseract-OCR/tesseract.exe">>

\* an engine path that exists, one that does not
InstalledPath == <<"/opt/tesseract">>
MissingPath == <<"/missing/tesseract">>

\* lines 56-64: the engine path after the resolution step; an argument of None
\* and an empty one are both the empty text
ResolveEngine(arg, current, e) ==
    IF strip(arg) # <<>> THEN strip(arg)
    ELSE IF e.onPath THEN Tesseract
    ELSE IF e.winExists THEN win_path
    ELSE current

\* whether running the configured path starts an engine
Runnable(cmd, e) ==
    \/ cmd = Tesseract /\ e.onPath
    \/ cmd = win_path /\ e.winExists
    \/ cmd = InstalledPath

Recognised(text) == [k |-> "ok", cause |-> "none", msg |-> <<>>, text |-> text]
TesseractError(cause, msg) == [k |-> "TesseractError", cause |-> cause, msg |-> msg, text |-> <<>>]
NotFoundError == [k |-> "TesseractNotFoundError", cause |-> "not_found",
                  msg |-> <<"tesseract", "is", "not", "installed">>, text |-> <<>>]

RecognisedTexts == {<<>>, <<"Math", "85", "4">>, <<"Error", "Analysis", "90">>}

\* what pytesseract.image_to_string can do with the configured path
EngineOutcomes(cmd, e) ==
    IF ~Runnable(cmd, e) THEN {NotFoundError}
    ELSE {Recognised(t) : t \in RecognisedTexts}
         \cup {TesseractError("langpack", <<"Failed", "loading", "lang", "chi_sim">>),
               TesseractError("other", <<"image", "too", "large">>),
               TesseractError("other", <<"cannot", "read", "lang", "scan.png">>)}

LangPackMarker == <<"Error", ":", "install", "Tesseract", "chi_sim">>

\* lines 83-88 (ocr_helper.py 36-42): the text returned for an exception
ErrorText(o) ==
    IF o.k = "TesseractError"
    THEN IF Contains(o.msg, "lang") THEN LangPackMarker
         ELSE <<"OCR", "Error", ":">> \o o.msg
    ELSE <<"Error", ":", "cannot", "run", "Tesseract", "OCR">> \o o.msg

\* the function: first and second are the outcomes of the engine runs.
\* [text, cmd, failure]
perform_ocr(which, arg, current, e, first, second) ==
    LET cmd == ResolveEngine(arg, current, e)
    IN IF first.k # "ok"
       THEN [text |-> ErrorText(first), cmd |-> cmd, failure |-> first.cause]
       ELSE IF which = "ocr_helper"
       THEN [text |-> first.text, cmd |-> cmd, failure |-> "none"]
       ELSE IF second.k # "ok"
       THEN [text |-> ErrorText(second), cmd |-> cmd, failure |-> second.cause]
       ELSE [text |-> <<"Source", "A", NL>> \o first.text
                        \o <<NL, "Source", "B", NL>> \o second.text,
             cmd |-> cmd, failure |-> "none"]

----------------------------------------------------------------------------
(* parse_with_deepseek *)

EmptyList == [k |-> "list", items |-> <<>>]

\* line 149
CleanApp(content) ==
    strip(replace_with_empty(replace_with_empty(content, <<FENCE, "json">>), <<FENCE>>))

\* ocr_helper.py lines 86-91
CleanHelper(content) ==
    LET c1 == IF StartsWith(content, <<FENCE, "json">>) THEN Drop(content, 2) ELSE content
        c2 == IF StartsWith(c1, <<FENCE>>) THEN Drop(c1, 1) ELSE c1
    IN IF EndsWith(c2, <<FENCE>>) THEN SubSeq(c2, 1, Len(c2) - 1) ELSE c2

Clean(which, content) == IF which = "app" THEN CleanApp(content) ELSE CleanHelper(content)

TransportError == [k |-> "error", text |-> <<>>]
NoContent == [k |-> "no_content", text |-> <<>>]
Content(text) == [k |-> "content", text |-> text]
NoReply == [k |-> "none", text |-> <<>>]

\* an early return for the empty text only
SkippedOnlyEmpty(text) == text = <<>>

\* lines 94-95: the early return
Skipped(text) == text = <<>> \/ Contains(text, "Error")

\* the function: built says whether OpenAI(...) returned a client, answer is
\* what the service did with the request.
\* [data, client_built, request_sent, raised, reply]
parse_with_deepseek(which, text, built, answer) ==
    IF Skipped(text)
    THEN [data |-> EmptyList, client_built |-> FALSE, request_sent |-> FALSE,
          raised |-> FALSE, reply |-> NoReply]
    ELSE IF ~built
    THEN [data |-> EmptyList, client_built |-> FALSE, request_sent |-> FALSE,
          raised |-> TRUE, reply |-> NoReply]
    ELSE LET data == IF answer.k # "content" THEN EmptyList
                     ELSE LET loaded == json_loads(Clean(which, strip(answer.text)))
                          IN IF loaded.k = "error" THEN EmptyList ELSE loaded
         IN [data |-> data, client_built |-> TRUE, request_sent |-> TRUE,
             raised |-> FALSE, reply |-> answer]

\* OpenAI(api_key=...) raises when no credential is given and none is set in
\* the environment
NoKey == "None"
ApiKeys == {NoKey, "", "sk-key"}
ClientBuilds(key) == IF key = NoKey THEN BOOLEAN ELSE {TRUE}

----------------------------------------------------------------------------
(* inputs of the aggregator *)

MaxRecords == 2

Keys == {"subject", "score", "credit"}

SubjectValues == {Str(<<"A">>), Str(<<"B">>)}
ScoreValues == {IntV(40), IntV(85), IntV(90), Str(<<"abc">>), PosInf}
CreditValues == {IntV(0), IntV(2), IntV(4), IntV(0 - 2)}

FieldValues(k) ==
    CASE k = "subject" -> SubjectValues
      [] k = "score" -> ScoreValues
      [] OTHER -> CreditValues

\* a dict with any subset of the three keys
Dicts == UNION {[ks -> SubjectValues \cup ScoreValues \cup CreditValues] : ks \in SUBSET Keys}
CandidateRecords == {r \in Dicts : \A k \in DOMAIN r : r[k] \in FieldValues(k)}


RecordLists == UNION {[1..n -> CandidateRecords] : n \in 0..MaxRecords}

----------------------------------------------------------------------------
(* replies of the language model *)

MaxReplyRecords == 2

TokenOfNumber(v) == CHOOSE tok \in NumberLiterals : ParseNumberLiteral(tok) = v

SerializeValue(v) ==
    IF v.t = "str" THEN <<Q>> \o v.s \o <<Q>>
    ELSE IF v.t = "null" THEN <<"null">>
    ELSE <<TokenOfNumber(v)>>

KeyOrder == <<"subject", "score", "credit">>

RECURSIVE SerializeMembers(_, _, _)
SerializeMembers(r, i, first) ==
    IF i > Len(KeyOrder) THEN <<>>
    ELSE IF KeyOrder[i] \notin DOMAIN r THEN SerializeMembers(r, i + 1, first)
    ELSE (IF first THEN <<>> ELSE <<",">>)
            \o <<Q, KeyOrder[i], Q, ":">> \o SerializeValue(r[KeyOrder[i]])
            \o SerializeMembers(r, i + 1, FALSE)

SerializeRecord(r) == <<"{">> \o SerializeMembers(r, 1, TRUE) \o <<"}">>

RECURSIVE SerializeItems(_)
SerializeItems(rs) ==
    IF rs = <<>> THEN <<>>
    ELSE SerializeRecord(Head(rs))
            \o (IF Len(rs) > 1 THEN <<",">> ELSE <<>>) \o SerializeItems(Tail(rs))

\* the JSON text of a list of records
SerializeList(rs) == <<"[">> \o SerializeItems(rs) \o <<"]">>

\* records with the three fields
WellFormedRecords ==
    {[subject |-> sub, score |-> sc, credit |-> cr] :
        sub \in {Str(<<"X">>), Str(<<"a", FENCE, "b">>)},
        sc \in {IntV(70), Str(<<"abc">>)},
        cr \in {IntV(1), IntV(0)}}

WellFormedLists == UNION {[1..n -> WellFormedRecords] : n \in 0..MaxReplyRecords}

Wrappings == {"bare", "fenced", "fenced-json"}

Wrap(w, text) ==
    CASE w = "fenced" -> <<FENCE, NL>> \o text \o <<NL, FENCE>>
      [] w = "fenced-json" -> <<FENCE, "json", NL>> \o text \o <<NL, FENCE>>
      [] OTHER -> text

WellFormedReplies == {Wrap(w, SerializeList(rs)) : w \in Wrappings, rs \in WellFormedLists}

\* replies that are not a JSON list: prose, a truncated list, a single object
MalformedReplies ==
    {<<"Sorry", ",", "no", "courses", "found">>,
     <<"[", "{", Q, "subject", Q, ":", Q, "X", Q, ",", Q, "score", Q, ":">>,
     SerializeRecord([subject |-> Str(<<"X">>), score |-> IntV(70), credit |-> IntV(1)])}

Answers ==
    {TransportError, NoContent}
        \cup {Content(text) : text \in WellFormedReplies \cup MalformedReplies}

\* the answers the button handler is run against: a list of at most one record,
\* or a failure
PipelineRecords ==
    {[subject |-> Str(<<"X">>), score |-> sc, credit |-> cr] :
        sc \in {IntV(70), Str(<<"abc">>)}, cr \in {IntV(1), IntV(0)}}

PipelineAnswers ==
    {TransportError, Content(<<"Sorry">>), Content(SerializeList(<<>>))}
        \cup {Content(SerializeList(<<r>>)) : r \in PipelineRecords}

----------------------------------------------------------------------------
(* states and steps *)

Envs == [onPath : BOOLEAN, winExists : BOOLEAN]
OcrArgs == {<<>>, <<" ">>, InstalledPath, <<" ">> \o InstalledPath, MissingPath}

MaxCalls == 2
MaxImages == 2

ExtractTexts ==
    {<<>>,
     <<"Math", "85", "4">>,
     <<"Source", "A", NL, "Math", "85", NL, "Source", "B", NL>>,
     <<"Error", "Analysis", "90">>,
     LangPackMarker,
     <<"OCR", "Error", ":", "image", "too", "large">>}

GpaIdle ==
    /\ data_list = <<>>
    /\ final_gpa = Zero
    /\ df_result = <<>>
    /\ gpa_pc = "idle"

OcrIdle ==
    /\ tesseract_cmd = Tesseract
    /\ env \in Envs
    /\ ocr_arg = <<>>
    /\ ocr_out = <<>>
    /\ ocr_failure = "none"
    /\ ocr_calls = 0

ParseIdle ==
    /\ ocr_text = <<>>
    /\ api_key = ""
    /\ reply = NoReply
    /\ parsed_data = EmptyList
    /\ client_built = FALSE
    /\ request_sent = FALSE
    /\ parse_raised = FALSE
    /\ parse_pc = "idle"

PipeIdle ==
    /\ pipe_pc = "idle"
    /\ images_left = 0
    /\ all_extracted_data = <<>>
    /\ image_records = <<>>
    /\ image_calls = 0
    /\ display = "nothing"

\* calculate_gpa called on its own
GpaInit ==
    /\ data_list \in RecordLists
    /\ final_gpa = Zero
    /\ df_result = <<>>
    /\ gpa_pc = "call"
    /\ impl = "app"
    /\ OcrIdle /\ env = [onPath |-> TRUE, winExists |-> FALSE]
    /\ ParseIdle
    /\ PipeIdle

Calculate ==
    /\ gpa_pc = "call"
    /\ \E r \in {calculate_gpa(data_list)} :
          /\ final_gpa' = r.gpa
          /\ df_result' = r.df
    /\ gpa_pc' = "done"
    /\ UNCHANGED <<data_list, impl, ocr_vars, parse_vars, pipe_vars>>

GpaNext == Calculate

SpecGpa == GpaInit /\ [][GpaNext]_vars

\* perform_ocr called repeatedly in one process
OcrInit ==
    /\ impl \in Impls
    /\ OcrIdle
    /\ GpaIdle /\ ParseIdle /\ PipeIdle

PerformOcr ==
    /\ pipe_pc = "idle" /\ parse_pc = "idle" /\ gpa_pc = "idle"
    /\ ocr_calls < MaxCalls
    /\ \E arg \in OcrArgs :
          \E first, second \in EngineOutcomes(ResolveEngine(arg, tesseract_cmd, env), env) :
             \E r \in {perform_ocr(impl, arg, tesseract_cmd, env, first, second)} :
                /\ tesseract_cmd' = r.cmd
                /\ ocr_arg' = arg
                /\ ocr_out' = r.text
                /\ ocr_failure' = r.failure
    /\ ocr_calls' = ocr_calls + 1
    /\ UNCHANGED <<env, impl, gpa_vars, parse_vars, pipe_vars>>

OcrNext == PerformOcr

SpecOcr == OcrInit /\ [][OcrNext]_vars

\* parse_with_deepseek called on its own
ParseInit ==
    /\ impl \in Impls
    /\ ocr_text \in ExtractTexts
    /\ api_key \in ApiKeys
    /\ reply = NoReply
    /\ parsed_data = EmptyList
    /\ client_built = FALSE
    /\ request_sent = FALSE
    /\ parse_raised = FALSE
    /\ parse_pc = "call"
    /\ OcrIdle /\ env = [onPath |-> TRUE, winExists |-> FALSE]
    /\ GpaIdle /\ PipeIdle

Parse ==
    /\ parse_pc = "call"
    /\ \E built \in ClientBuilds(api_key), answer \in Answers :
          \E r \in {parse_with_deepseek(impl, ocr_text, built, answer)} :
             /\ parsed_data' = r.data
             /\ client_built' = r.client_built
             /\ request_sent' = r.request_sent
             /\ parse_raised' = r.raised
             /\ reply' = r.reply
    /\ parse_pc' = "done"
    /\ UNCHANGED <<ocr_text, api_key, impl, ocr_vars, gpa_vars, pipe_vars>>

ParseNext == Parse

SpecParse == ParseInit /\ [][ParseNext]_vars

\* the button handler of app.py, lines 256-301
PipeInit ==
    /\ impl = "app"
    /\ tesseract_cmd = Tesseract
    /\ env \in Envs
    /\ ocr_arg \in {<<>>, InstalledPath}
    /\ ocr_out = <<>>
    /\ ocr_failure = "none"
    /\ ocr_calls = 0
    /\ ocr_text = <<>>
    /\ api_key \in {"", "sk-key"}
    /\ reply = NoReply
    /\ parsed_data = EmptyList
    /\ client_built = FALSE
    /\ request_sent = FALSE
    /\ parse_raised = FALSE
    /\ parse_pc = "idle"
    /\ GpaIdle
    /\ pipe_pc = "clicked"
    /\ images_left \in 1..MaxImages
    /\ all_extracted_data = <<>>
    /\ image_records = <<>>
    /\ image_calls = 0
    /\ display = "nothing"

\* lines 257-262
Click ==
    /\ pipe_pc = "clicked"
    /\ IF api_key = ""
       THEN pipe_pc' = "done" /\ display' = "key-error"
       ELSE pipe_pc' = "loop" /\ display' = "progress"
    /\ UNCHANGED <<images_left, all_extracted_data, image_records, image_calls,
                   impl, ocr_vars, parse_vars, gpa_vars>>

\* lines 264-283, one image
ProcessImage ==
    /\ pipe_pc = "loop"
    /\ images_left > 0
    /\ \E first, second \in EngineOutcomes(ResolveEngine(ocr_arg, tesseract_cmd, env), env),
          answer \in PipelineAnswers :
          \E o \in {perform_ocr(impl, ocr_arg, tesseract_cmd, env, first, second)} :
             /\ tesseract_cmd' = o.cmd
             /\ ocr_out' = o.text
             /\ ocr_failure' = o.failure
             /\ ocr_calls' = ocr_calls + 1
             /\ IF Contains(o.text, "Error") /\ Contains(o.text, "Tesseract")
                THEN /\ display' = "ocr-error"
                     /\ pipe_pc' = "stopped"
                     /\ image_records' = <<>>
                     /\ image_calls' = 0
                     /\ UNCHANGED <<images_left, all_extracted_data, parse_vars>>
                ELSE \E p \in {parse_with_deepseek(impl, o.text, TRUE, answer)} :
                        /\ ocr_text' = o.text
                        /\ parsed_data' = p.data
                        /\ client_built' = p.client_built
                        /\ request_sent' = p.request_sent
                        /\ parse_raised' = p.raised
                        /\ reply' = p.reply
                        /\ parse_pc' = "done"
                        /\ image_records' = p.data.items
                        /\ image_calls' = IF p.request_sent THEN 1 ELSE 0
                        /\ all_extracted_data' = all_extracted_data \o p.data.items
                        /\ images_left' = images_left - 1
                        /\ pipe_pc' = IF images_left = 1 THEN "show" ELSE "loop"
                        /\ UNCHANGED <<display, api_key>>
    /\ UNCHANGED <<env, ocr_arg, impl, gpa_vars>>

\* lines 285-301
Show ==
    /\ pipe_pc = "show"
    /\ IF all_extracted_data = <<>>
       THEN /\ display' = "warning"
            /\ UNCHANGED gpa_vars
       ELSE \E r \in {calculate_gpa(all_extracted_data)} :
               /\ data_list' = all_extracted_data
               /\ final_gpa' = r.gpa
               /\ df_result' = r.df
               /\ gpa_pc' = "done"
               /\ display' = "metric"
    /\ pipe_pc' = "done"
    /\ UNCHANGED <<images_left, all_extracted_data, image_records, image_calls,
                   impl, ocr_vars, parse_vars>>

PipeNext == Click \/ ProcessImage \/ Show

SpecPipeline == PipeInit /\ [][PipeNext]_vars

\* the extractor on its own and inside the button handler
SpecExtraction == (ParseInit \/ PipeInit) /\ [][ParseNext \/ PipeNext]_vars

----------------------------------------------------------------------------
(* properties of calculate_gpa *)

GpaDone == gpa_pc = "done"

\* a field that can be coerced to a number
Coercible(r, k) ==
    /\ k \in DOMAIN r
    /\ \/ r[k].t \in {"num", "inf", "ninf"}
       \/ r[k].t = "str" /\ r[k].s \in NumericStrings

NumericRecord(r) == Coercible(r, "score") /\ Coercible(r, "credit")

HasSubject(r) == "subject" \in DOMAIN r /\ r["subject"].t = "str"

\* the positions the specification keeps: numeric records, first of each subject
Kept(list) ==
    {i \in 1..Len(list) :
        /\ NumericRecord(list[i])
        /\ ~\E j \in 1..(i - 1) :
              /\ NumericRecord(list[j])
              /\ HasSubject(list[i]) /\ HasSubject(list[j])
              /\ list[j]["subject"] = list[i]["subject"]}

RECURSIVE Restrict(_, _, _)
Restrict(list, keep, i) ==
    IF i > Len(list) THEN <<>>
    ELSE (IF i \in keep THEN <<list[i]>> ELSE <<>>) \o Restrict(list, keep, i + 1)

KeptRecords(list) == Restrict(list, Kept(list), 1)

ScoreCreditFinite(row) ==
    /\ {"score", "credit"} \subseteq DOMAIN row
    /\ row["score"].t = "num" /\ row["score"].d = 1
    /\ row["credit"].t = "num" /\ row["credit"].d = 1

RECURSIVE SumCredit(_)
SumCredit(rows) ==
    IF rows = <<>> THEN 0 ELSE Head(rows)["credit"].n + SumCredit(Tail(rows))

\* ten times the sum of the weighted points
RECURSIVE SumTenTimesWeighted(_)
SumTenTimesWeighted(rows) ==
    IF rows = <<>> THEN 0
    ELSE (Head(rows)["score"].n - 50) * Head(rows)["credit"].n
            + SumTenTimesWeighted(Tail(rows))

C2_ReportIsCleanedInput ==
    GpaDone =>
        /\ Len(df_result) = Len(KeptRecords(data_list))
        /\ \A i \in 1..Len(df_result) :
              \A k \in Keys :
                 k \in DOMAIN KeptRecords(data_list)[i] =>
                    /\ k \in DOMAIN df_result[i]
                    /\ IF k = "subject"
                       THEN df_result[i][k] = KeptRecords(data_list)[i][k]
                       ELSE df_result[i][k] = to_numeric(KeptRecords(data_list)[i][k])

\* C3: finalGpa is always a finite number.
C3_FinalGpaFinite == GpaDone => final_gpa.t = "num"

\* C4: every record of the report has a subject, a numeric score and a numeric
\* credit, no two share a subject, and when no record survives cleaning the
\* result is (0.0, empty).
ValidRecord(row) ==
    /\ Keys \subseteq DOMAIN row
    /\ ~IsNA(row["subject"])
    /\ IsNumber(row["score"]) /\ IsNumber(row["credit"])

C4_ReportHoldsValidRecords ==
    GpaDone =>
        /\ \A i \in 1..Len(df_result) : ValidRecord(df_result[i])
        /\ \A i, j \in 1..Len(df_result) :
              i # j => df_result[i]["subject"] # df_result[j]["subject"]
        /\ (Kept(data_list) = {} => final_gpa = Zero /\ df_result = <<>>)

----------------------------------------------------------------------------
(* properties of parse_with_deepseek and of the button handler *)

ParseDone == parse_pc = "done"

\* the text is empty or carries the error marker of perform_ocr
ErrorMarked(text) == \E i \in 1..Len(text) : text[i] = "Error"

\* an image has been through the loop body
ImageProcessed == ocr_calls > 0 /\ pipe_pc \in {"loop", "show", "stopped", "done"}

\* C5: no client is built and no request is sent for an empty or error-marked
\* text, the result is an empty list; and an image whose OCR failed contributes
\* no record and causes no request.
C5_NoCallOnErrorText ==
    /\ (ParseDone /\ (ocr_text = <<>> \/ ErrorMarked(ocr_text)))
          => /\ parsed_data = EmptyList
             /\ ~client_built /\ ~request_sent /\ ~parse_raised
             /\ reply = NoReply
    /\ (ImageProcessed /\ ocr_failure # "none")
          => /\ ErrorMarked(ocr_out)
             /\ image_records = <<>>
             /\ image_calls = 0

\* an OCR error text without the word Tesseract reaches the extractor, which
\* returns without a call
C5_Witness ==
    /\ ImageProcessed /\ pipe_pc # "stopped"
    /\ ocr_failure = "other"
    /\ ParseDone /\ ocr_text = ocr_out
    /\ ~request_sent /\ image_records = <<>>

\* the reply is not a JSON list
NotAList(answer) ==
    \/ answer.k \in {"error", "no_content"}
    \/ answer.k = "content"
         /\ \A w \in Wrappings, rs \in WellFormedLists :
               answer.text # Wrap(w, SerializeList(rs))

\* C6: no exception leaves parse_with_deepseek, and every failure (client,
\* transport, empty reply, unparsable reply) gives an empty list.
C6_NeverRaises ==
    ParseDone =>
        /\ ~parse_raised
        /\ (request_sent /\ NotAList(reply)) => parsed_data = EmptyList

\* C7: a well-formed reply, bare or inside code-fence markers, is returned as
\* the same records with every field value unchanged.
C7_RoundTrip ==
    (ParseDone /\ request_sent /\ reply.k = "content") =>
        \A w \in Wrappings, rs \in WellFormedLists :
            reply.text = Wrap(w, SerializeList(rs))
                => parsed_data = [k |-> "list", items |-> rs]

\* C8: a GPA is shown only when at least one valid record exists; with no
\* valid record the page warns instead.
C8_GpaShownOnlyWithRecords ==
    pipe_pc = "done" =>
        /\ display = "metric" => df_result # <<>>
        /\ (display \in {"metric", "warning"} /\ Kept(all_extracted_data) = {})
              => display = "warning"

----------------------------------------------------------------------------
(* properties of perform_ocr *)

OcrReturned == ocr_calls > 0

\* C9: an engine failure gives an error-marked text, and the language-pack
\* marker is returned exactly when the language pack is missing.
C9_LangPackMarkerExact ==
    OcrReturned =>
        /\ ocr_failure # "none" => ErrorMarked(ocr_out)
        /\ ocr_out = LangPackMarker <=> ocr_failure = "langpack"

\* C10: each call uses the override if non-empty, else the engine on the
\* search path, else the fallback install, and fails when there is none of them.
C10_ResolutionOrder ==
    OcrReturned =>
        IF strip(ocr_arg) # <<>> THEN tesseract_cmd = strip(ocr_arg)
        ELSE IF env.onPath THEN tesseract_cmd = Tesseract
        ELSE IF env.winExists THEN tesseract_cmd = win_path
        ELSE ocr_failure # "none" /\ ErrorMarked(ocr_out)

====
